---- MODULE Spec2Model ----
(***************************************************************************)
(* SmartFill front end (src/app.py): a Streamlit script that is run from   *)
(* top to bottom once per render cycle.  st.session_state persists across  *)
(* cycles; st.rerun() ends the current cycle and schedules the next one.   *)
(* One action of this model is one whole render cycle.                     *)
(*                                                                         *)
(* Strings are modelled as sequences of tokens, so that f-string           *)
(* formatting is concatenation and a glob match inspects the tokens.       *)
(***************************************************************************)
EXTENDS Integers, Sequences, FiniteSets, TLC

(* ------------------------------ bounds --------------------------------- *)
MaxSubmits == 2      \* submissions (clicks on "Process Content") per run
MaxFiles == 2        \* files in the uploader of one submission
MaxText == 2         \* characters typed in the text area
MaxPolls == 4        \* automatic polls of one execution handle

(* ------------------------- values and strings -------------------------- *)
None == <<>>                     \* Python None for the string-valued fields
NoStatus == "None"               \* execution_status before the first fetch
TerminalStatuses == {"SUCCEEDED", "FAILED", "TIMED_OUT", "ABORTED"}
NonTerminalStatuses == {"PENDING", "RUNNING"}
Statuses == NonTerminalStatuses \cup TerminalStatuses
ERROR == "ERROR"                 \* a remote call that raised

Chars == {" ", "a"}
Texts(n) == UNION {[1..k -> Chars] : k \in 0..n}
FmtStamp(t) == IF t = 1 THEN "1700000001" ELSE "1700000002"
FmtNow(t) == IF t = 1 THEN "20240101120001" ELSE "20240101120002"
UidTable == <<"0a1b2c3d", "1b2c3d4e", "2c3d4e5f", "3d4e5f60", "4e5f6071", "5f607182">>
FmtUid(n) == UidTable[n]               \* str(uuid.uuid4())[:8], fresh per call
DecStr == <<"0", "1", "2", "3", "4", "5", "6", "7", "8", "9">>
FmtInt(k) == DecStr[k + 1]             \* str(k) of a one-digit integer
IsIntStr(s) == \E i \in 1..Len(DecStr) : DecStr[i] = s
ParseInt(s) == (CHOOSE i \in 1..Len(DecStr) : DecStr[i] = s) - 1

FileNames == { <<"report", ".pdf">>, <<"notes", ".txt">>,
               <<"user_input_", "1700000001", ".txt">> }
FileLists(n) == UNION {[1..k -> FileNames] : k \in 0..n}

RECURSIVE lstrip(_)
lstrip(s) == IF s # <<>> /\ Head(s) = " " THEN lstrip(Tail(s)) ELSE s
RECURSIVE rstrip(_)
rstrip(s) == IF s # <<>> /\ s[Len(s)] = " "
             THEN rstrip(SubSeq(s, 1, Len(s) - 1)) ELSE s
strip(s) == rstrip(lstrip(s))

generate_session_id(now, n) == <<FmtNow(now), "-", FmtUid(n)>>
text_filename(ts) == <<"user_input_", FmtStamp(ts), ".txt">>
file_key(sid, name) == sid \o <<"/">> \o name
execution_name(sid) == <<"Execution-">> \o sid
executionArn(name) == <<"arn:">> \o name

(* ------------------- the describe_execution response ------------------- *)
MaxTopics == 2       \* entries of topics / of topic_results
MaxQuestions == 3    \* items of a whole topic_results payload

QInt(n) == [t |-> "int", n |-> n, s |-> ""]      \* "question_id": 3
QStr(s) == [t |-> "str", n |-> 0, s |-> s]       \* "question_id": "1"
QMissing == [t |-> "missing", n |-> 0, s |-> ""]  \* no "question_id" key
Question(qid, fu) ==
  [has_body |-> TRUE, is_dict |-> TRUE, question_id |-> qid, follow_up |-> fu]
\* The shapes of one item of a topic's result list.
Items ==
  { Question(QInt(2), <<>>), Question(QInt(3), <<"wrapped">>), Question(QStr("1"), <<>>),
    Question(QStr("x"), <<>>), Question(QMissing, <<>>), Question(QInt(1), <<"plain">>),
    [has_body |-> FALSE, is_dict |-> FALSE, question_id |-> QMissing, follow_up |-> <<>>] }
TopicNames == <<"A", "B", "C", "D">>

\* int(q.get('question_id', '0')): the value, or raised when int() throws.
SortKey(q) ==
  CASE q.question_id.t = "missing" -> [raised |-> FALSE, k |-> ParseInt("0")]
    [] q.question_id.t = "int" -> [raised |-> FALSE, k |-> q.question_id.n]
    [] OTHER -> IF IsIntStr(q.question_id.s)
                THEN [raised |-> FALSE, k |-> ParseInt(q.question_id.s)]
                ELSE [raised |-> TRUE, k |-> 0]

\* Python's sorted() is stable: q goes after every element whose key is <= its own.
RECURSIVE InsertByKey(_, _)
InsertByKey(sorted, q) ==
  IF sorted = <<>> THEN <<q>>
  ELSE IF SortKey(Head(sorted)).k <= SortKey(q).k
       THEN <<Head(sorted)>> \o InsertByKey(Tail(sorted), q)
       ELSE <<q>> \o sorted
RECURSIVE SortByKey(_, _)
SortByKey(acc, rest) ==
  IF rest = <<>> THEN acc ELSE SortByKey(InsertByKey(acc, Head(rest)), Tail(rest))
\* Line 312 without the call of sorted(): the questions in payload order.
sorted_questions_unsorted(questions) ==
  IF \E i \in 1..Len(questions) : SortKey(questions[i]).raised
  THEN [raised |-> TRUE, qs |-> <<>>]
  ELSE [raised |-> FALSE, qs |-> questions]
sorted_questions(questions) ==
  IF \E i \in 1..Len(questions) : SortKey(questions[i]).raised
  THEN [raised |-> TRUE, qs |-> <<>>]
  ELSE [raised |-> FALSE, qs |-> SortByKey(<<>>, questions)]

\* What a block of rendering statements did: the elements it rendered, and
\* whether it raised.  Then(a, b): a, then b unless a raised.
Rendered(els) == [els |-> els, raised |-> FALSE]
Raised == [els |-> <<>>, raised |-> TRUE]
Then(a, b) == IF a.raised THEN a ELSE [els |-> a.els \o b.els, raised |-> b.raised]
\* The block without a try around it: its exception leaves it.
CaughtNothing(block, message) == block
\* try: block / except Exception: st.warning(message)
Caught(block, message) ==
  [els |-> IF block.raised THEN block.els \o << <<"warning", message>> >>
           ELSE block.els,
   raised |-> FALSE]

\* Lines 324-334: the follow-ups of one question; a follow-up whose question is
\* not wrapped in {"S": ...} raises at .get('S').
RECURSIVE RenderFollowUpItems(_)
RenderFollowUpItems(fu) ==
  IF fu = <<>> THEN Rendered(<<>>)
  ELSE IF Head(fu) # "wrapped" THEN Raised
  ELSE Then(Rendered(<< <<"followup", "question">>, <<"followup", "answer">> >>),
            RenderFollowUpItems(Tail(fu)))
RenderFollowUps(fu) ==
  IF fu = <<>> THEN Rendered(<<>>)
  ELSE Then(Rendered(<< <<"markdown", "Follow-up Questions:">> >>),
            RenderFollowUpItems(fu))

\* Lines 315-336 (and 350-370, 386-406): one question with its answer.
RenderBody(body) ==
  Then(Rendered(<< <<"question", body.question_id>>, <<"answer", "answer">> >>),
       Then(RenderFollowUps(body.follow_up), Rendered(<< <<"markdown", "---">> >>)))
RECURSIVE RenderBodies(_)
RenderBodies(bodies) ==
  IF bodies = <<>> THEN Rendered(<<>>)
  ELSE Then(RenderBody(Head(bodies)), RenderBodies(Tail(bodies)))

IsQuestion(item) == item.has_body /\ item.is_dict

\* Lines 298-336: a topic under its name, its questions sorted.
RenderSorted(sq) == IF sq.raised THEN Raised ELSE RenderBodies(sq.qs)
RenderNamedTopic(topic_name, topic_data) ==
  Then(Rendered(<< <<"subheader", <<topic_name>> >> >>),
       RenderSorted(sorted_questions(SelectSeq(topic_data, IsQuestion))))

\* Lines 341 and 377 with the label f"Topic {topic_idx}".
RenderPositionalTopicFromZero(topic_idx, topic_data) ==
  Then(Rendered(<< <<"subheader", <<"Topic ", FmtInt(topic_idx)>> >> >>),
       RenderBodies(SelectSeq(topic_data, IsQuestion)))
\* Lines 340-370 and 376-406: a topic under "Topic k", its items in payload order.
RenderPositionalTopic(topic_idx, topic_data) ==
  Then(Rendered(<< <<"subheader", <<"Topic ", FmtInt(topic_idx + 1)>> >> >>),
       RenderBodies(SelectSeq(topic_data, IsQuestion)))

RECURSIVE RenderNamedTopics(_, _)
RenderNamedTopics(topics, topics_data) ==
  IF topics_data = <<>> THEN Rendered(<<>>)
  ELSE Then(RenderNamedTopic(Head(topics), Head(topics_data)),
            RenderNamedTopics(Tail(topics), Tail(topics_data)))
RECURSIVE RenderPositionalTopics(_, _)
RenderPositionalTopics(topic_idx, topics_data) ==
  IF topics_data = <<>> THEN Rendered(<<>>)
  ELSE Then(RenderPositionalTopic(topic_idx, Head(topics_data)),
            RenderPositionalTopics(topic_idx + 1, Tail(topics_data)))

\* Lines 286-406: the body of the try block, after describe_execution returned.
RenderOutput(resp) ==
  IF ~resp.json THEN Raised                                 \* json.loads raises
  ELSE IF resp.has_results /\ resp.has_topics
  THEN Then(Rendered(<< <<"header", "Processing Results">> >>),
            IF Len(resp.topics) = Len(resp.topic_results)
            THEN RenderNamedTopics(resp.topics, resp.topic_results)
            ELSE Then(Rendered(<< <<"warning", "lengths don't match">> >>),
                      RenderPositionalTopics(0, resp.topic_results)))
  ELSE IF resp.has_results
  THEN Then(Rendered(<< <<"header", "Processing Results">> >>),
            RenderPositionalTopics(0, resp.topic_results))
  ELSE Rendered(<<>>)

\* Lines 280-408: describe_execution, the rendering, and the except clause.
RenderSucceeded(resp) ==
  Caught(IF resp.raised THEN Raised ELSE RenderOutput(resp),
         "Could not parse execution output")

\* Lines 413-423: the error and cause of a failed execution.
RenderFailed(resp) ==
  Caught(IF resp.raised \/ ~resp.details_json THEN Raised
         ELSE Rendered(<< <<"error", "Error">>, <<"error", "Cause">> >>),
         "Could not parse error details")

\* What describe_execution returns to the display section: raised (the call
\* throws), or a response whose output parses or not, with or without a topics
\* list and a topic_results list, and whose error/cause parse or not.
Response(raised, json, has_topics, topics, has_results, topic_results, details_json) ==
  [raised |-> raised, json |-> json, has_topics |-> has_topics, topics |-> topics,
   has_results |-> has_results, topic_results |-> topic_results,
   details_json |-> details_json]
NoResponse == Response(FALSE, TRUE, FALSE, <<>>, FALSE, <<>>, TRUE)
RaisedResponse == Response(TRUE, TRUE, FALSE, <<>>, FALSE, <<>>, TRUE)
MalformedResponse == Response(FALSE, FALSE, FALSE, <<>>, FALSE, <<>>, FALSE)
Payload(has_topics, topics, topic_results) ==
  Response(FALSE, TRUE, has_topics, topics, TRUE, topic_results, TRUE)

\* topic_results lists of at most nt topics with at most nq items in all: a
\* flat list of items cut into m consecutive non-empty topics, or m empty topics.
FlatItems(nq) == UNION {[1..n -> Items] : n \in 0..nq}
CutSeqs(m, n) ==
  IF n = 0 THEN {[i \in 1..(m - 1) |-> 0]}
  ELSE {c \in [1..(m - 1) -> 1..(n - 1)] : \A i, j \in 1..(m - 1) : i < j => c[i] < c[j]}
Split(flat, m, c) ==
  [j \in 1..m |->
     SubSeq(flat, (IF j = 1 THEN 0 ELSE c[j - 1]) + 1, IF j = m THEN Len(flat) ELSE c[j])]
\* The topics list next to a topic_results list of n entries: none, as long,
\* one shorter or one longer.
TopicOptions(n) ==
  {[has_topics |-> FALSE, topics |-> <<>>]}
  \cup {[has_topics |-> TRUE, topics |-> SubSeq(TopicNames, 1, k)] :
          k \in {n - 1, n, n + 1} \ {-1}}
\* The responses drawn while the whole session is explored.
SampleResponses ==
  { MalformedResponse,
    Payload(TRUE, <<"A">>,
            << <<Question(QInt(2), <<"wrapped">>), Question(QInt(1), <<>>)>> >>),
    Payload(TRUE, <<"A">>, << <<Question(QStr("x"), <<"plain">>)>> >>) }

\* One click on "Process Content": the text area, the uploader, and what the
\* remote calls of the handler will answer (oks: one outcome per upload).
Submission(user_text, files, oks, startOk) ==
  [user_text |-> user_text, files |-> files, oks |-> oks, startOk |-> startOk]
NoSubmission == Submission(<<>>, <<>>, <<>>, FALSE)

(* ------------------------------ state ---------------------------------- *)
VARIABLES
  session_id,        \* st.session_state.session_id
  uploaded_files,    \* st.session_state.uploaded_files (staged keys)
  execution_arn,     \* st.session_state.execution_arn
  execution_status,  \* st.session_state.execution_status
  auto_check,        \* st.session_state.auto_check
  rerun_pending,     \* the last cycle ended in st.rerun()
  screen,            \* elements rendered by the last cycle, in order
  calls,             \* remote calls made by the last cycle, in order
  submission,        \* what the last cycle submitted, if it was a submission
  output,            \* what the service holds for the stored handle: output, error, cause
  remote,            \* status of the stored handle at the orchestration service
  lastOp,            \* which kind of cycle ran last
  lastPoll,          \* what auto_check_status fetched in the last cycle
  slept,             \* the last cycle waited the fixed 2 second delay
  fault,             \* an exception left the last cycle unhandled
  response,          \* what describe_execution gave the display section of the last cycle
  submits,           \* submissions so far
  auto_polls,        \* automatic polls of the stored handle
  reschedules,       \* 2 second re-schedules for the stored handle
  answers,           \* what the service answered to the automatic polls of the handle
  poll_failed,       \* some poll of the stored handle raised
  reported,          \* the statuses the service has reported for the stored handle
  terminal_seen      \* a poll of the stored handle fetched a terminal status

session == <<session_id, uploaded_files, execution_arn, execution_status, auto_check>>
history == <<submits, auto_polls, reschedules, answers, poll_failed, reported,
             terminal_seen>>
cycle == <<rerun_pending, screen, calls, submission, lastOp, lastPoll, slept, fault,
           response>>
service == <<remote, output>>
vars == <<session, history, cycle, service>>

Init ==
  /\ session_id = None
  /\ uploaded_files = <<>>
  /\ execution_arn = None
  /\ execution_status = NoStatus
  /\ auto_check = FALSE
  /\ rerun_pending = FALSE
  /\ screen = <<>>
  /\ calls = <<>>
  /\ submission = NoSubmission
  /\ output = NoResponse
  /\ remote = "NONE"
  /\ lastOp = "init"
  /\ lastPoll = "none"
  /\ slept = FALSE
  /\ fault = FALSE
  /\ response = NoResponse
  /\ submits = 0
  /\ auto_polls = 0
  /\ reschedules = 0
  /\ answers = <<>>
  /\ poll_failed = FALSE
  /\ reported = {}
  /\ terminal_seen = FALSE

(* --------------------------- auto_check_status ------------------------- *)
\* The result of auto_check_status() when describe_execution answers `ans`
\* (a status, or ERROR when the call raises): the new execution_status and
\* auto_check, the return value, and whether the exception was caught.
\* auto_check_status without line 91: a terminal status leaves auto_check on.
auto_check_status_keeps_polling(arn, status, auto, ans) ==
  IF arn = None
  THEN [status |-> status, auto_check |-> auto, ret |-> "None",
        called |-> FALSE, raised |-> FALSE]
  ELSE IF ans = ERROR
  THEN [status |-> status, auto_check |-> FALSE, ret |-> "None",
        called |-> TRUE, raised |-> FALSE]
  ELSE [status |-> ans, auto_check |-> auto, ret |-> ans,
        called |-> TRUE, raised |-> FALSE]

\* auto_check_status without its try/except: the exception of describe_execution
\* leaves the function, and line 99 never runs.
auto_check_status_uncaught(arn, status, auto, ans) ==
  IF arn = None
  THEN [status |-> status, auto_check |-> auto, ret |-> "None",
        called |-> FALSE, raised |-> FALSE]
  ELSE IF ans = ERROR
  THEN [status |-> status, auto_check |-> auto, ret |-> "None",
        called |-> TRUE, raised |-> TRUE]
  ELSE IF ans \in TerminalStatuses
  THEN [status |-> ans, auto_check |-> FALSE, ret |-> ans,
        called |-> TRUE, raised |-> FALSE]
  ELSE [status |-> ans, auto_check |-> auto, ret |-> ans,
        called |-> TRUE, raised |-> FALSE]

\* auto_check_status with line 91 flipping auto_check instead of clearing it.
auto_check_status_toggling(arn, status, auto, ans) ==
  IF arn = None
  THEN [status |-> status, auto_check |-> auto, ret |-> "None",
        called |-> FALSE, raised |-> FALSE]
  ELSE IF ans = ERROR
  THEN [status |-> status, auto_check |-> FALSE, ret |-> "None",
        called |-> TRUE, raised |-> FALSE]
  ELSE IF ans \in TerminalStatuses
  THEN [status |-> ans, auto_check |-> ~auto, ret |-> ans,
        called |-> TRUE, raised |-> FALSE]
  ELSE [status |-> ans, auto_check |-> auto, ret |-> ans,
        called |-> TRUE, raised |-> FALSE]

auto_check_status(arn, status, auto, ans) ==
  IF arn = None
  THEN [status |-> status, auto_check |-> auto, ret |-> "None",
        called |-> FALSE, raised |-> FALSE]
  ELSE IF ans = ERROR
  THEN [status |-> status, auto_check |-> FALSE, ret |-> "None",
        called |-> TRUE, raised |-> FALSE]
  ELSE IF ans \in TerminalStatuses
  THEN [status |-> ans, auto_check |-> FALSE, ret |-> ans,
        called |-> TRUE, raised |-> FALSE]
  ELSE [status |-> ans, auto_check |-> auto, ret |-> ans,
        called |-> TRUE, raised |-> FALSE]

\* describe_execution of the stored handle: its status, or an error.
DescribeAnswers == {remote, ERROR}

\* Lines 139-144: a terminal return value re-runs at once, anything else
\* (a non-terminal status or None) waits 2 seconds first.
\* Lines 139-144 with the delay on every path.
SleepsAlways(ret) == TRUE
SleepsBeforeRerun(ret) == ret \notin TerminalStatuses

\* Lines 259-439: the display section, when no button of it is clicked.
\* els: what it renders; calls: its remote calls; rerun: it ends in st.rerun().
Below(cur, r) ==
  [els |-> cur \o r.els, calls |-> <<>>, rerun |-> FALSE, raised |-> r.raised]
Describing(arn, d) == [d EXCEPT !.calls = << <<"describe_execution", arn>> >>]
StatusLine(status, auto) ==
  << <<"header", "Execution Status">>, <<"status", status>> >>
  \o (IF auto /\ status = "RUNNING" THEN << <<"info", "analyzing">> >> ELSE <<>>)
DisplaySection(arn, status, auto, resp) ==
  IF arn = None
  THEN [els |-> <<>>, calls |-> <<>>, rerun |-> FALSE, raised |-> FALSE]
  ELSE IF status # NoStatus
  THEN CASE status = "SUCCEEDED" ->
              Describing(arn, Below(StatusLine(status, auto)
                                      \o << <<"success", "completed">> >>,
                                    RenderSucceeded(resp)))
         [] status = "FAILED" ->
              Describing(arn, Below(StatusLine(status, auto)
                                      \o << <<"error", "Processing failed.">> >>,
                                    RenderFailed(resp)))
         [] status = "RUNNING" /\ ~auto ->
              Below(StatusLine(status, auto),
                    Rendered(<< <<"info", "Processing is running.">>,
                                <<"button", "Check Status Manually">> >>))
         [] OTHER -> Below(StatusLine(status, auto), Rendered(<<>>))
  ELSE [els |-> << <<"header", "Execution Status">>,
                   <<"info", "Awaiting status update...">> >>,
        calls |-> <<>>, rerun |-> auto, raised |-> FALSE]

ManualButton == <<"button", "Check Status Manually">>
OnScreen(el) == \E i \in 1..Len(screen) : screen[i] = el

(* ------------------------------ staging -------------------------------- *)
\* One upload inside its try block: the call, the key appended when it
\* succeeds, the error shown when it raises.
Upload(api, key, ok, message) ==
  [file_paths |-> IF ok THEN <<key>> ELSE <<>>,
   calls |-> << <<api, key>> >>,
   els |-> IF ok THEN <<>> ELSE << <<"error", message>> >>]
NoUpload == [file_paths |-> <<>>, calls |-> <<>>, els |-> <<>>]
AndThen(a, b) ==
  [file_paths |-> a.file_paths \o b.file_paths, calls |-> a.calls \o b.calls,
   els |-> a.els \o b.els]

\* Lines 166-190: the text, when non-empty after strip(), is uploaded first.
StageText(sid, user_text, ts, ok) ==
  IF strip(user_text) # <<>>
  THEN Upload("put_object", file_key(sid, text_filename(ts)), ok,
              "Error uploading user text")
  ELSE NoUpload

\* Lines 192-211 with the try around the loop: the first failed upload ends it.
RECURSIVE StageFilesAborting(_, _, _)
StageFilesAborting(sid, files, oks) ==
  IF files = <<>> THEN NoUpload
  ELSE AndThen(Upload("upload_fileobj", file_key(sid, Head(files)), Head(oks),
                      "Error uploading file"),
               IF Head(oks) THEN StageFilesAborting(sid, Tail(files), Tail(oks))
               ELSE NoUpload)

\* Lines 192-211: every file in turn; a failed upload is reported and skipped.
RECURSIVE StageFiles(_, _, _)
StageFiles(sid, files, oks) ==
  IF files = <<>> THEN NoUpload
  ELSE AndThen(Upload("upload_fileobj", file_key(sid, Head(files)), Head(oks),
                      "Error uploading file"),
               StageFiles(sid, Tail(files), Tail(oks)))

\* Lines 156-211 with the two blocks swapped: the files, then the text.
StageFilesFirst(sid, user_text, files, ts, oks) ==
  IF strip(user_text) # <<>>
  THEN AndThen(StageFiles(sid, files, Tail(oks)),
               StageText(sid, user_text, ts, Head(oks)))
  ELSE AndThen(StageFiles(sid, files, oks), StageText(sid, user_text, ts, FALSE))

\* Lines 156-211: oks holds one upload outcome per item, in enumeration order.
Stage(sid, user_text, files, ts, oks) ==
  IF strip(user_text) # <<>>
  THEN AndThen(StageText(sid, user_text, ts, Head(oks)),
               StageFiles(sid, files, Tail(oks)))
  ELSE AndThen(StageText(sid, user_text, ts, FALSE), StageFiles(sid, files, oks))

total_files(user_text, files) == Len(files) + (IF strip(user_text) # <<>> THEN 1 ELSE 0)

\* Lines 213-257 without the test of line 213: the launch is always attempted.
LaunchUnguarded(sid, file_paths, startOk, old_files, old_arn, old_auto) ==
  IF startOk
  THEN [uploaded_files |-> file_paths,
        execution_arn |-> executionArn(execution_name(sid)),
        auto_check |-> TRUE,
        calls |-> << <<"start_execution", execution_name(sid)>> >>,
        rerun |-> TRUE, els |-> <<>>]
  ELSE [uploaded_files |-> file_paths, execution_arn |-> old_arn,
        auto_check |-> old_auto,
        calls |-> << <<"start_execution", execution_name(sid)>> >>,
        rerun |-> FALSE,
        els |-> << <<"error", "Error starting Step Function">> >>]

\* Lines 213-257 without line 248: a launch that leaves auto_check as it was.
LaunchWithoutAutoCheck(sid, file_paths, startOk, old_files, old_arn, old_auto) ==
  IF file_paths # <<>>
  THEN IF startOk
       THEN [uploaded_files |-> file_paths,
             execution_arn |-> executionArn(execution_name(sid)),
             auto_check |-> old_auto,
             calls |-> << <<"start_execution", execution_name(sid)>> >>,
             rerun |-> TRUE, els |-> <<>>]
       ELSE [uploaded_files |-> file_paths, execution_arn |-> old_arn,
             auto_check |-> old_auto,
             calls |-> << <<"start_execution", execution_name(sid)>> >>,
             rerun |-> FALSE,
             els |-> << <<"error", "Error starting Step Function">> >>]
  ELSE [uploaded_files |-> old_files, execution_arn |-> old_arn,
        auto_check |-> old_auto, calls |-> <<>>, rerun |-> FALSE,
        els |-> << <<"error", "No content was successfully uploaded.">> >>]

\* Lines 213-257: the launch. startOk: start_execution returns a handle.
\* stored: what the handler leaves in the session state; rerun: line 251.
Launch(sid, file_paths, startOk, old_files, old_arn, old_auto) ==
  IF file_paths # <<>>
  THEN LET start == << <<"start_execution", execution_name(sid)>> >>
       IN IF startOk
          THEN [uploaded_files |-> file_paths,
                execution_arn |-> executionArn(execution_name(sid)),
                auto_check |-> TRUE, calls |-> start, rerun |-> TRUE,
                els |-> <<>>]
          ELSE [uploaded_files |-> file_paths, execution_arn |-> old_arn,
                auto_check |-> old_auto, calls |-> start, rerun |-> FALSE,
                els |-> << <<"error", "Error starting Step Function">> >>]
  ELSE [uploaded_files |-> old_files, execution_arn |-> old_arn,
        auto_check |-> old_auto, calls |-> <<>>, rerun |-> FALSE,
        els |-> << <<"error", "No content was successfully uploaded.">> >>]

(* ------------------------------ cycles --------------------------------- *)
\* A cycle reaches line 146 only when the automatic block did not run.
PastAutoBlock == ~(auto_check /\ execution_arn # None)

\* describe_execution in the display section: the service's response, or raised.
DescribeResponses == {output, RaisedResponse}

\* Lines 132-144: the cycle of the automatic loop.
AutoCycle ==
  /\ auto_check /\ execution_arn # None
  /\ auto_polls < MaxPolls
  /\ \E ans \in DescribeAnswers :
       LET r == auto_check_status(execution_arn, execution_status, auto_check, ans)
       IN /\ execution_status' = r.status
          /\ auto_check' = r.auto_check
          /\ lastPoll' = ans
          /\ fault' = r.raised
          /\ slept' = SleepsBeforeRerun(r.ret)
          /\ reschedules' = reschedules + (IF SleepsBeforeRerun(r.ret) THEN 1 ELSE 0)
          /\ auto_polls' = auto_polls + 1
          /\ answers' = IF ans = ERROR THEN answers ELSE Append(answers, ans)
          /\ poll_failed' = (poll_failed \/ ans = ERROR)
          /\ reported' = IF ans = ERROR THEN reported ELSE reported \cup {ans}
          /\ terminal_seen' = (terminal_seen \/ ans \in TerminalStatuses)
          /\ calls' = << <<"describe_execution", execution_arn>> >>
  /\ screen' = << <<"spinner", "waiting">> >>
  /\ response' = NoResponse
  /\ submission' = NoSubmission
  /\ rerun_pending' = TRUE
  /\ lastOp' = "auto"
  /\ UNCHANGED <<session_id, uploaded_files, execution_arn, submits, service>>

Submissions(texts, filelists) ==
  UNION { { Submission(user_text, files, oks, startOk) :
              oks \in [1..total_files(user_text, files) -> BOOLEAN],
              startOk \in BOOLEAN } :
          user_text \in texts, files \in filelists }
\* The submissions drawn while the whole session is explored.
SampleSubmissions ==
  UNION { { Submission(<<"a">>, files, oks, startOk) :
              oks \in [1..(Len(files) + 1) -> BOOLEAN], startOk \in BOOLEAN } :
          files \in {<<>>, << <<"report", ".pdf">> >>} }

\* Lines 146-257, then 259-439 unless the launch re-ran the script: a click on
\* "Process Content" with some content entered.  st: what the staging did,
\* l: what the launch did, d: what the display section did.
Submitted(sid, st, l, d) ==
  /\ session_id' = sid
  /\ uploaded_files' = l.uploaded_files
  /\ execution_arn' = l.execution_arn
  /\ auto_check' = l.auto_check
  /\ calls' = st.calls \o l.calls \o (IF l.rerun THEN <<>> ELSE d.calls)
  /\ screen' = st.els \o l.els \o (IF l.rerun THEN <<>> ELSE d.els)
  /\ rerun_pending' = (l.rerun \/ d.rerun)
  /\ fault' = (~l.rerun /\ d.raised)
  /\ IF l.rerun
     THEN /\ remote' = "PENDING"
          /\ output' = NoResponse
          /\ auto_polls' = 0
          /\ reschedules' = 0
          /\ answers' = <<>>
          /\ poll_failed' = FALSE
          /\ reported' = {}
          /\ terminal_seen' = FALSE
     ELSE UNCHANGED <<service, auto_polls, reschedules, answers,
                      poll_failed, reported, terminal_seen>>
\* What the display section got from describe_execution, when it called it.
Fetched(d, resp) == response' = IF d.calls = <<>> THEN NoResponse ELSE resp
Launched(sid, st, l) ==
  \E resp \in DescribeResponses :
     /\ Submitted(sid, st, l,
                  DisplaySection(l.execution_arn, execution_status, l.auto_check, resp))
     /\ IF l.rerun THEN response' = NoResponse
        ELSE Fetched(DisplaySection(l.execution_arn, execution_status,
                                    l.auto_check, resp), resp)
Staged(sid, st, startOk) ==
  Launched(sid, st, Launch(sid, st.file_paths, startOk,
                           uploaded_files, execution_arn, auto_check))
\* The handler with execution_status reset to None next to line 151.
SubmitResetting(sub) ==
  /\ ~rerun_pending /\ PastAutoBlock
  /\ sub.files # <<>> \/ strip(sub.user_text) # <<>>
  /\ Staged(generate_session_id(submits + 1, submits + 1),
            Stage(generate_session_id(submits + 1, submits + 1),
                  sub.user_text, sub.files, submits + 1, sub.oks),
            sub.startOk)
  /\ submission' = sub
  /\ submits' = submits + 1
  /\ lastOp' = "submit"
  /\ lastPoll' = "none"
  /\ slept' = FALSE
  /\ execution_status' = NoStatus
\* The clock reading of the n-th submission is n.
Submit(sub) ==
  /\ ~rerun_pending /\ PastAutoBlock
  /\ sub.files # <<>> \/ strip(sub.user_text) # <<>>
  /\ Staged(generate_session_id(submits + 1, submits + 1),
            Stage(generate_session_id(submits + 1, submits + 1),
                  sub.user_text, sub.files, submits + 1, sub.oks),
            sub.startOk)
  /\ submission' = sub
  /\ submits' = submits + 1
  /\ lastOp' = "submit"
  /\ lastPoll' = "none"
  /\ slept' = FALSE
  /\ UNCHANGED execution_status

SubmitCycle == submits < MaxSubmits /\ \E sub \in SampleSubmissions : Submit(sub)

\* Lines 259-439 with no button clicked: the cycle after a st.rerun(), or after
\* any other interaction with a widget.
Displayed(d) ==
  /\ screen' = d.els
  /\ calls' = d.calls
  /\ rerun_pending' = d.rerun
  /\ fault' = d.raised
\* The display cycle with an except clause that also forgets the stored status.
DisplayCycleForgetting ==
  /\ PastAutoBlock
  /\ \E resp \in DescribeResponses :
       /\ Displayed(DisplaySection(execution_arn, execution_status, auto_check, resp))
       /\ Fetched(DisplaySection(execution_arn, execution_status, auto_check, resp),
                  resp)
       /\ execution_status' =
            IF DisplaySection(execution_arn, execution_status, auto_check, resp).els
               = DisplaySection(execution_arn, execution_status, auto_check,
                                NoResponse).els
            THEN execution_status ELSE NoStatus
  /\ submission' = NoSubmission
  /\ lastOp' = "display"
  /\ lastPoll' = "none"
  /\ slept' = FALSE
  /\ UNCHANGED <<session_id, uploaded_files, execution_arn, auto_check, history,
                 service>>
DisplayCycle ==
  /\ PastAutoBlock
  /\ \E resp \in DescribeResponses :
       /\ Displayed(DisplaySection(execution_arn, execution_status, auto_check, resp))
       /\ Fetched(DisplaySection(execution_arn, execution_status, auto_check, resp),
                  resp)
  /\ submission' = NoSubmission
  /\ lastOp' = "display"
  /\ lastPoll' = "none"
  /\ slept' = FALSE
  /\ UNCHANGED <<session, history, service>>

\* Lines 425-432: a click on "Check Status Manually", which the previous cycle
\* rendered; the cycle reaches the button again, polls once and re-runs.
ManualCheckCycle ==
  /\ ~rerun_pending /\ PastAutoBlock
  /\ OnScreen(ManualButton)
  /\ execution_arn # None /\ execution_status = "RUNNING" /\ ~auto_check
  /\ \E ans \in DescribeAnswers :
       LET r == auto_check_status(execution_arn, execution_status, auto_check, ans)
       IN /\ execution_status' = r.status
          /\ auto_check' = r.auto_check
          /\ lastPoll' = ans
          /\ fault' = r.raised
          /\ poll_failed' = (poll_failed \/ ans = ERROR)
          /\ reported' = IF ans = ERROR THEN reported ELSE reported \cup {ans}
          /\ terminal_seen' = (terminal_seen \/ ans \in TerminalStatuses)
  /\ response' = NoResponse
  /\ calls' = << <<"describe_execution", execution_arn>> >>
  /\ screen' = << <<"header", "Execution Status">>, <<"status", execution_status>>,
                  <<"info", "Processing is running.">>, ManualButton >>
  /\ submission' = NoSubmission
  /\ rerun_pending' = TRUE
  /\ lastOp' = "manual"
  /\ slept' = FALSE
  /\ UNCHANGED <<session_id, uploaded_files, execution_arn, submits, auto_polls,
                 reschedules, answers, service>>

\* The orchestration service runs the execution of the stored handle; when it
\* ends, the service holds its output (or its error and cause).
ServiceProgress ==
  /\ remote \in NonTerminalStatuses
  /\ \/ remote = "PENDING" /\ remote' = "RUNNING" /\ output' = output
     \/ remote' \in TerminalStatuses /\ output' \in SampleResponses
  /\ UNCHANGED <<session, history, cycle>>

Next ==
  \/ AutoCycle
  \/ SubmitCycle
  \/ DisplayCycle
  \/ ManualCheckCycle
  \/ ServiceProgress

Spec == Init /\ [][Next]_vars

\* st.rerun() of line 140/144 always brings the next cycle of the automatic
\* loop, and the orchestration service does not leave an execution unfinished.
LiveSpec == Spec /\ WF_vars(AutoCycle) /\ WF_vars(ServiceProgress)

(* ----------------- one submission, under every input ------------------- *)
SampleSessionId == generate_session_id(1, 1)
\* The session once the first poll of a first, text-only submission has fetched
\* SUCCEEDED (lines 90-92, 139-140), the service holding the response out.
Completed(out) ==
  /\ session_id = SampleSessionId
  /\ uploaded_files = <<file_key(SampleSessionId, text_filename(1))>>
  /\ execution_arn = executionArn(execution_name(SampleSessionId))
  /\ execution_status = "SUCCEEDED"
  /\ auto_check = FALSE
  /\ rerun_pending = TRUE
  /\ screen = << <<"spinner", "waiting">> >>
  /\ calls = << <<"describe_execution", executionArn(execution_name(SampleSessionId))>> >>
  /\ submission = NoSubmission
  /\ remote = "SUCCEEDED"
  /\ output = out
  /\ lastOp = "auto"
  /\ lastPoll = "SUCCEEDED"
  /\ slept = FALSE
  /\ fault = FALSE
  /\ response = NoResponse
  /\ submits = 1
  /\ auto_polls = 1
  /\ reschedules = 0
  /\ answers = <<"SUCCEEDED">>
  /\ poll_failed = FALSE
  /\ reported = {"SUCCEEDED"}
  /\ terminal_seen = TRUE

\* A fresh session, or one whose earlier execution has completed; then one
\* click on "Process Content" with any content and any outcome of its calls.
StageInit == Init \/ Completed(MalformedResponse)
StageCycle ==
  /\ lastOp # "submit"
  /\ \E sub \in Submissions(Texts(MaxText), FileLists(MaxFiles)) : Submit(sub)
StageNext ==
  \/ rerun_pending /\ DisplayCycle
  \/ StageCycle
StageSpec == StageInit /\ [][StageNext]_vars

(* ------------- the display of a result, under every response ----------- *)
RenderInit ==
  \/ \E out \in {RaisedResponse, MalformedResponse, NoResponse} : Completed(out)
  \/ \E flat \in FlatItems(MaxQuestions), m \in 0..MaxTopics :
       /\ m = 0 => flat = <<>>
       /\ \E c \in CutSeqs(m, Len(flat)), t \in TopicOptions(m) :
            Completed(Payload(t.has_topics, t.topics, Split(flat, m, c)))
RenderNext == DisplayCycle
RenderSpec == RenderInit /\ [][RenderNext]_vars

(* ------------- auto_check_status, in every session state --------------- *)
\* A session that holds the handle arn with any stored status and any
\* auto_check, the execution being in the state rem at the service.
Polling(arn, status, auto, rem) ==
  /\ session_id = SampleSessionId
  /\ uploaded_files = <<file_key(SampleSessionId, text_filename(1))>>
  /\ execution_arn = arn
  /\ execution_status = status
  /\ auto_check = auto
  /\ rerun_pending = FALSE
  /\ screen = <<>>
  /\ calls = <<>>
  /\ submission = NoSubmission
  /\ remote = rem
  /\ output = NoResponse
  /\ lastOp = "init"
  /\ lastPoll = "none"
  /\ slept = FALSE
  /\ fault = FALSE
  /\ response = NoResponse
  /\ submits = 1
  /\ auto_polls = 0
  /\ reschedules = 0
  /\ answers = <<>>
  /\ poll_failed = FALSE
  /\ reported = {}
  /\ terminal_seen = FALSE
PollInit ==
  \E arn \in {None, executionArn(execution_name(SampleSessionId))},
     status \in Statuses \cup {NoStatus}, auto \in BOOLEAN, rem \in Statuses :
     Polling(arn, status, auto, rem)
\* Lines 76-100: one call of auto_check_status(), from either of its call
\* sites (lines 136 and 431), in the session state as it is.
StatusCheck ==
  /\ auto_polls < MaxPolls
  /\ \E ans \in DescribeAnswers :
       LET r == auto_check_status(execution_arn, execution_status, auto_check, ans)
       IN /\ execution_status' = r.status
          /\ auto_check' = r.auto_check
          /\ fault' = r.raised
          /\ lastPoll' = IF r.called THEN ans ELSE "none"
          /\ calls' = IF r.called THEN << <<"describe_execution", execution_arn>> >>
                      ELSE <<>>
          /\ answers' = IF r.called /\ ans # ERROR THEN Append(answers, ans)
                        ELSE answers
          /\ poll_failed' = (poll_failed \/ (r.called /\ ans = ERROR))
          /\ reported' = IF r.called /\ ans # ERROR THEN reported \cup {ans}
                         ELSE reported
          /\ terminal_seen' = (terminal_seen \/ (r.called /\ ans \in TerminalStatuses))
  /\ auto_polls' = auto_polls + 1
  /\ lastOp' = "check"
  /\ UNCHANGED <<session_id, uploaded_files, execution_arn, rerun_pending, screen,
                 submission, slept, response, submits, reschedules, service>>
PollNext ==
  \/ StatusCheck
  \/ ServiceProgress
PollSpec == PollInit /\ [][PollNext]_vars

(* ============================== claims ================================= *)
IsTerminal(status) == status \in TerminalStatuses
RECURSIVE CountNonTerminal(_)
CountNonTerminal(seq) ==
  IF seq = <<>> THEN 0
  ELSE (IF IsTerminal(Head(seq)) THEN 0 ELSE 1) + CountNonTerminal(Tail(seq))
CallsOf(api) == SelectSeq(calls, LAMBDA c : c[1] = api)
Shown(el) == \E i \in 1..Len(screen) : screen[i] = el

\* C1: a cycle whose poll fetched a terminal status for the stored handle
\* leaves auto_check false, and once a poll of the stored handle has fetched a
\* terminal status no later step issues an automatic poll for that handle.
C1_TerminalStopsPolling ==
  [][ /\ IsTerminal(lastPoll') => auto_check' = FALSE
      /\ (terminal_seen /\ execution_arn' = execution_arn) => auto_polls' = auto_polls
    ]_vars
\* A render cycle that comes after the terminal poll of the stored handle.
C1_Witness ==
  /\ terminal_seen /\ auto_polls > 0
  /\ lastOp = "display" /\ IsTerminal(execution_status) /\ ~auto_check

\* C2: while no poll of the stored handle has raised, the automatic loop has
\* re-scheduled itself (2 second delay) once per non-terminal answer and has
\* polled once per answer, one poll per cycle; once the last answer is
\* terminal, that is N re-schedules and N+1 polls, and polling has stopped.
C2_ReschedulesPerAnswer ==
  (execution_arn # None /\ ~poll_failed) =>
     /\ reschedules = CountNonTerminal(answers)
     /\ auto_polls = Len(answers)
     /\ lastOp = "auto" => Len(CallsOf("describe_execution")) = 1
     /\ (answers # <<>> /\ IsTerminal(answers[Len(answers)])) =>
           /\ ~auto_check
           /\ reschedules = Len(answers) - 1
           /\ execution_status = answers[Len(answers)]
\* RUNNING three times, then SUCCEEDED: 3 re-schedules, 4 polls.
C2_Witness ==
  /\ answers = <<"RUNNING", "RUNNING", "RUNNING", "SUCCEEDED">>
  /\ reschedules = 3 /\ auto_polls = 4 /\ ~auto_check /\ ~poll_failed

\* C3: whenever a cycle has completed with a handle stored, automatic checking
\* off and a non-terminal stored status (PENDING and the not-yet-fetched status
\* included), the "Check Status Manually" button is on the screen.
C3_ManualCheckAvailable ==
  (/\ ~rerun_pending /\ lastOp \in {"display", "submit"}
   /\ execution_arn # None /\ ~auto_check /\ ~IsTerminal(execution_status))
  => Shown(ManualButton)

\* C4: a submission whose start_execution fails shows the error and leaves
\* session_id, the staged keys, the handle, the status and auto_check as they
\* were before the submission.
C4_FailedLaunchChangesNothing ==
  [][ (submits' = submits + 1 /\ CallsOf("start_execution")' # <<>>
       /\ rerun_pending' = FALSE)
      => /\ Shown(<<"error", "Error starting Step Function">>)'
         /\ session' = session
    ]_vars

\* C5: a cycle whose poll raised leaves auto_check false and the stored status
\* and handle as they were, and no exception leaves the cycle.
C5_PollFailureDegrades ==
  [][ lastPoll' = ERROR
      => /\ auto_check' = FALSE
         /\ execution_status' = execution_status
         /\ execution_arn' = execution_arn
         /\ fault' = FALSE
    ]_vars
\* The first automatic poll of a handle raised: polling is off, no status yet.
C5_Witness ==
  /\ lastOp = "auto" /\ lastPoll = ERROR
  /\ ~auto_check /\ execution_arn # None /\ execution_status = NoStatus

(* ------------------- one submission (StageSpec) ------------------------ *)
IsUpload(c) == c[1] \in {"put_object", "upload_fileobj"}
UploadCalls == SelectSeq(calls, IsUpload)
HasText == strip(submission.user_text) # <<>>
ItemCount == Len(submission.files) + (IF HasText THEN 1 ELSE 0)
AllUploadsFailed == \A i \in 1..Len(submission.oks) : ~submission.oks[i]
AllUploadsSucceeded == \A i \in 1..Len(submission.oks) : submission.oks[i]
\* The file name of a key of the current session: what follows "{session_id}/".
NameOf(key) == SubSeq(key, Len(session_id) + 2, Len(key))
\* fnmatch(name, "user_input_*.txt")
IsUserInputName(name) ==
  Len(name) >= 2 /\ name[1] = "user_input_" /\ name[Len(name)] = ".txt"
\* fnmatch(key, "{session_id}/user_input_*.txt")
MatchesUserInput(key) ==
  /\ Len(key) >= Len(session_id) + 3
  /\ SubSeq(key, 1, Len(session_id) + 1) = session_id \o <<"/">>
  /\ IsUserInputName(NameOf(key))
\* The elements of seq whose outcome in oks is TRUE, in order.
RECURSIVE Kept(_, _)
Kept(seq, oks) ==
  IF seq = <<>> \/ oks = <<>> THEN <<>>
  ELSE (IF Head(oks) THEN <<Head(seq)>> ELSE <<>>) \o Kept(Tail(seq), Tail(oks))

\* C6: a submission all of whose uploads fail calls start_execution not at all,
\* stores no handle and no staged keys, leaves auto_check off and says that no
\* content was uploaded.
C6_NoLaunchWithoutKeys ==
  [][ (submits' = submits + 1 /\ AllUploadsFailed')
      => /\ CallsOf("start_execution")' = <<>>
         /\ execution_arn' = execution_arn
         /\ uploaded_files' = uploaded_files
         /\ auto_check' = FALSE
         /\ Shown(<<"error", "No content was successfully uploaded.">>)'
    ]_vars
\* The text and MaxFiles files were submitted, and every upload failed.
C6_Witness ==
  /\ lastOp = "submit" /\ HasText /\ Len(submission.files) = MaxFiles
  /\ AllUploadsFailed /\ submission.startOk
  /\ CallsOf("start_execution") = <<>>

\* C7: after a submission, every item was attempted whatever failed before it,
\* and the staged key list, when not empty, holds the keys of the uploads that
\* succeeded, in attempt order; with exactly one failure among M >= 2 items it
\* holds M-1 keys.
C7_FailedItemSkipped ==
  lastOp = "submit" =>
     /\ Len(UploadCalls) = ItemCount
     /\ Kept(UploadCalls, submission.oks) # <<>> =>
          /\ Len(uploaded_files) = Len(Kept(UploadCalls, submission.oks))
          /\ \A i \in 1..Len(uploaded_files) :
               uploaded_files[i] = Kept(UploadCalls, submission.oks)[i][2]
     /\ (ItemCount >= 2
         /\ Cardinality({i \in 1..ItemCount : ~submission.oks[i]}) = 1)
        => Len(uploaded_files) = ItemCount - 1
\* Three items, the second of which failed: the first and the third are staged.
C7_Witness ==
  /\ lastOp = "submit" /\ ItemCount = 3
  /\ submission.oks = <<TRUE, FALSE, TRUE>>
  /\ uploaded_files = <<UploadCalls[1][2], UploadCalls[3][2]>>

\* C8: the calls of a submission start with its uploads, in enumeration order
\* (the text first when it is not blank, then the files in upload order), and
\* start_execution, when called, is called once, right after the last upload.
C8_UploadsThenLaunch ==
  lastOp = "submit" =>
     /\ Len(UploadCalls) = ItemCount
     /\ \A i \in 1..ItemCount : IsUpload(calls[i])
     /\ HasText => /\ calls[1][1] = "put_object"
                   /\ IsUserInputName(NameOf(calls[1][2]))
     /\ \A i \in 1..Len(submission.files) :
          /\ calls[i + ItemCount - Len(submission.files)][1] = "upload_fileobj"
          /\ NameOf(calls[i + ItemCount - Len(submission.files)][2]) = submission.files[i]
     /\ \A i \in 1..Len(calls) : calls[i][1] = "start_execution" => i = ItemCount + 1
\* The text and two files, one of which failed, then the launch.
C8_Witness ==
  /\ lastOp = "submit" /\ HasText /\ Len(submission.files) = 2
  /\ ~submission.oks[2] /\ submission.oks[3]
  /\ Len(calls) >= 4 /\ calls[4][1] = "start_execution"

\* C9: with a non-blank text and N files all uploaded, N+1 keys are
\* staged, each "{session_id}/{filename}", and exactly one of them matches
\* "{session_id}/user_input_*.txt".
C9_ExactlyOneUserInputKey ==
  (lastOp = "submit" /\ HasText /\ AllUploadsSucceeded) =>
     /\ Len(uploaded_files) = Len(submission.files) + 1
     /\ \A i \in 1..Len(submission.files) :
          uploaded_files[i + 1] = session_id \o <<"/">> \o submission.files[i]
     /\ Cardinality({i \in 1..Len(uploaded_files) : MatchesUserInput(uploaded_files[i])}) = 1
(* ------------------ the display of a result (RenderSpec) --------------- *)
IsQuestionAt(i) == screen[i][1] = "question"
\* The subheader a screen element stands under (0: none).
TopicOf(i) ==
  IF \E k \in 1..i : screen[k][1] = "subheader"
  THEN CHOOSE k \in 1..i :
         /\ screen[k][1] = "subheader"
         /\ \A m \in (k + 1)..i : screen[m][1] # "subheader"
  ELSE 0
IsPositionalLabel(k) == k > 0 /\ screen[k][2][1] = "Topic "
HasIntegerId(qid) == qid.t = "int" \/ (qid.t = "str" /\ IsIntStr(qid.s))
IdValue(qid) == IF qid.t = "int" THEN qid.n ELSE ParseInt(qid.s)

\* C10: under a positional label ("Topic k"), the questions of a topic are on
\* the screen in ascending order of question_id.
C10_PositionalTopicsSorted ==
  lastOp = "display" =>
     \A i, j \in 1..Len(screen) :
        (/\ i < j /\ IsQuestionAt(i) /\ IsQuestionAt(j)
         /\ TopicOf(i) = TopicOf(j) /\ IsPositionalLabel(TopicOf(i))
         /\ HasIntegerId(screen[i][2]) /\ HasIntegerId(screen[j][2]))
        => IdValue(screen[i][2]) <= IdValue(screen[j][2])

\* The result display of the last cycle: what it fetched, and what it shows.
IsHeading(el) == el[1] = "subheader"
Headings == SelectSeq(screen, IsHeading)
HeadingAt(k) ==
  CHOOSE i \in 1..Len(screen) :
    /\ IsHeading(screen[i])
    /\ Cardinality({j \in 1..i : IsHeading(screen[j])}) = k
\* The question ids on the screen from position i up to the next heading.
RECURSIVE IdsFrom(_)
IdsFrom(i) ==
  IF i > Len(screen) THEN <<>>
  ELSE IF IsHeading(screen[i]) THEN <<>>
  ELSE (IF IsQuestionAt(i) THEN <<screen[i][2]>> ELSE <<>>) \o IdsFrom(i + 1)
ShownIds(k) == IdsFrom(HeadingAt(k) + 1)
\* The question ids of one entry of topic_results, in payload order.
PayloadIds(topic_data) ==
  [i \in 1..Len(SelectSeq(topic_data, IsQuestion)) |->
     SelectSeq(topic_data, IsQuestion)[i].question_id]
IsPermutation(a, b) ==
  /\ Len(a) = Len(b)
  /\ \E p \in [1..Len(a) -> 1..Len(a)] :
       /\ \A i, j \in 1..Len(a) : p[i] = p[j] => i = j
       /\ \A i \in 1..Len(a) : a[i] = b[p[i]]
\* The integer a question_id stands for, 0 when it is missing or no integer.
KeyOrZero(qid) == IF HasIntegerId(qid) THEN IdValue(qid) ELSE 0
Ascending(ids) ==
  \A i, j \in 1..Len(ids) : i < j => KeyOrZero(ids[i]) <= KeyOrZero(ids[j])
FetchedResults ==
  /\ lastOp = "display" /\ execution_status = "SUCCEEDED"
  /\ ~response.raised /\ response.json /\ response.has_results
NamedCase ==
  /\ FetchedResults /\ response.has_topics
  /\ Len(response.topics) = Len(response.topic_results)
PositionalCase ==
  /\ FetchedResults
  /\ response.has_topics => Len(response.topics) # Len(response.topic_results)
WellFormedFollowUps ==
  \A k \in 1..Len(response.topic_results) :
    \A i \in 1..Len(response.topic_results[k]) :
      \A f \in 1..Len(response.topic_results[k][i].follow_up) :
        response.topic_results[k][i].follow_up[f] = "wrapped"
IntegerIdsOnly ==
  \A k \in 1..Len(response.topic_results) :
    \A i \in 1..Len(PayloadIds(response.topic_results[k])) :
      HasIntegerId(PayloadIds(response.topic_results[k])[i])
ParseWarning == <<"warning", "Could not parse execution output">>

\* C11: when topics and topic_results are equally long, every question of the
\* payload is displayed under its topic, ordered by question_id with a missing
\* or unparseable question_id counting as 0, and the rendering is not aborted.
C11_UnparseableIdSortsAsZero ==
  (NamedCase /\ WellFormedFollowUps) =>
     /\ ~Shown(ParseWarning)
     /\ Len(Headings) = Len(response.topics)
     /\ \A k \in 1..Len(response.topics) :
          /\ IsPermutation(ShownIds(k), PayloadIds(response.topic_results[k]))
          /\ Ascending(ShownIds(k))

\* C12: when topics and topic_results are equally long, the k-th heading on
\* the screen is the k-th topic name and the questions under it are in ascending
\* integer order of question_id; when every id is an integer or a numeric string
\* every topic is displayed with exactly the questions of its result list.
C12_NamedTopicsSorted ==
  NamedCase =>
     /\ Len(Headings) <= Len(response.topics)
     /\ \A k \in 1..Len(Headings) :
          /\ Headings[k][2] = <<response.topics[k]>>
          /\ Ascending(ShownIds(k))
     /\ (WellFormedFollowUps /\ IntegerIdsOnly) =>
          /\ Len(Headings) = Len(response.topics)
          /\ \A k \in 1..Len(response.topics) :
               IsPermutation(ShownIds(k), PayloadIds(response.topic_results[k]))
\* The ids 3, "1", 2 of topic "A" are displayed as "1", 2, 3.
C12_Witness ==
  /\ NamedCase /\ response.topics = <<"A">>
  /\ PayloadIds(response.topic_results[1]) = <<QInt(3), QStr("1"), QInt(2)>>
  /\ Len(Headings) = 1 /\ Headings[1][2] = <<"A">>
  /\ ShownIds(1) = <<QStr("1"), QInt(2), QInt(3)>>

PositionalLabel(k) == <<"Topic ", <<"1", "2", "3", "4", "5">>[k]>>
LengthWarning == <<"warning", "lengths don't match">>
\* C13: when topics and topic_results differ in length, or topics is absent,
\* every entry of topic_results is displayed under "Topic k", k its 1-based
\* position, with its questions; the warning is shown exactly when a topics
\* list is present, and no exception is raised.
C13_PositionalFallback ==
  (PositionalCase /\ WellFormedFollowUps) =>
     /\ Shown(LengthWarning) <=> response.has_topics
     /\ ~Shown(ParseWarning) /\ ~fault
     /\ Len(Headings) = Len(response.topic_results)
     /\ \A k \in 1..Len(response.topic_results) :
          /\ Headings[k][2] = PositionalLabel(k)
          /\ ShownIds(k) = PayloadIds(response.topic_results[k])
\* One topic name for two result lists: the warning, "Topic 1" and "Topic 2".
C13_Witness ==
  /\ PositionalCase /\ WellFormedFollowUps
  /\ Len(response.topics) = 1 /\ Len(response.topic_results) = 2
  /\ Shown(LengthWarning)
  /\ Len(Headings) = 2
  /\ Headings[1][2] = <<"Topic ", "1">> /\ Headings[2][2] = <<"Topic ", "2">>

(* ----------------------- faults of a render cycle ---------------------- *)
IsMessage(el) == el[1] \in {"error", "warning"}
IsUploadError(el) ==
  el[1] = "error" /\ el[2] \in {"Error uploading user text", "Error uploading file"}
FailedUploads == {i \in 1..Len(submission.oks) : ~submission.oks[i]}
\* The display section of the last cycle called describe_execution, and the
\* call or the rendering of what it returned raised.
DisplayRaised ==
  /\ lastOp \in {"display", "submit"} /\ CallsOf("describe_execution") # <<>>
  /\ \/ response.raised
     \/ execution_status = "SUCCEEDED" /\ RenderOutput(response).raised
     \/ execution_status = "FAILED" /\ ~response.details_json
DisplayWarning ==
  IF execution_status = "SUCCEEDED" THEN ParseWarning
  ELSE <<"warning", "Could not parse error details">>
\* What holds of every failure but that of a poll.
HandledUnlessPoll ==
  /\ ~fault
  /\ lastOp = "submit" =>
       /\ Len(SelectSeq(screen, IsUploadError)) = Cardinality(FailedUploads)
       /\ (CallsOf("start_execution") # <<>> /\ ~submission.startOk)
            => Shown(<<"error", "Error starting Step Function">>)
  /\ DisplayRaised => Shown(DisplayWarning)

C15_OnlyPollsChangeStatus ==
  [][ /\ execution_status' # execution_status
           => /\ lastOp' \in {"auto", "manual"}
              /\ lastPoll' \in Statuses /\ execution_status' = lastPoll'
      /\ submits' = submits + 1 => execution_status' = execution_status
      /\ lastOp' = "display" => session' = session
    ]_vars
\* A malformed output of a SUCCEEDED execution was displayed as a warning.
C15_Witness ==
  /\ lastOp = "display" /\ execution_status = "SUCCEEDED"
  /\ response = MalformedResponse /\ Shown(ParseWarning)
  /\ session_id # None /\ uploaded_files # <<>> /\ ~auto_check

\* C16: when the last status check stored a terminal status and a further
\* check returns the same terminal status, the further check leaves the session
\* state as it was (auto_check stays false) and does nothing but the one
\* describe_execution call.
C16_TerminalCheckIdempotent ==
  [][ (/\ lastOp = "check" /\ IsTerminal(execution_status)
       /\ lastPoll = execution_status
       /\ auto_polls' = auto_polls + 1 /\ lastPoll' = execution_status)
      => /\ session' = session
         /\ auto_check' = FALSE
         /\ fault' = FALSE
         /\ screen' = screen
         /\ calls' = << <<"describe_execution", execution_arn>> >>
    ]_vars
\* Two checks in a row were answered FAILED.
C16_Witness ==
  /\ lastOp = "check" /\ Len(answers) >= 2
  /\ answers[Len(answers)] = "FAILED" /\ answers[Len(answers) - 1] = "FAILED"
  /\ lastPoll = "FAILED" /\ execution_status = "FAILED" /\ ~auto_check

\* C17: once a poll of the stored handle has fetched a terminal status, the
\* stored status is that terminal status and no step that keeps the handle
\* changes it, whatever cycles and user actions follow.
C17_TerminalStatusStays ==
  [][ /\ terminal_seen' => IsTerminal(execution_status')
      /\ (terminal_seen /\ execution_arn' = execution_arn)
           => execution_status' = execution_status
    ]_vars
\* After the handle became FAILED the user submitted again and the launch
\* failed: the handle and its status are still stored.
C17_Witness ==
  /\ terminal_seen /\ execution_status = "FAILED"
  /\ lastOp = "submit" /\ CallsOf("start_execution") # <<>>
  /\ execution_arn # None /\ ~auto_check

\* C18: the stored execution status is unset or a status the service reported
\* for the stored handle, and a status on the screen is one the service reported
\* for the stored handle.
C18_StatusBelongsToHandle ==
  /\ execution_status # NoStatus => execution_status \in reported
  /\ \A s \in Statuses : Shown(<<"status", s>>) => s \in reported

\* C19: when a session_id and a handle are both stored, the handle is the one
\* of the execution named "Execution-{session_id}".
C19_HandleMatchesSession ==
  (session_id # None /\ execution_arn # None)
     => execution_arn = executionArn(execution_name(session_id))

(* ------------------------------ liveness ------------------------------- *)
LaunchSucceeded ==
  lastOp = "submit" /\ CallsOf("start_execution") # <<>> /\ submission.startOk
TerminalStored ==
  /\ terminal_seen /\ IsTerminal(execution_status) /\ execution_status = remote
  /\ ~auto_check
\* C20: after a successful launch, the session reaches a state in which the
\* terminal status of the execution is stored and auto_check is false, unless a
\* poll raises or MaxPolls polls were all answered with a non-terminal status.
C20_LoopReachesTerminal ==
  LaunchSucceeded ~>
     (TerminalStored \/ poll_failed \/ (auto_polls = MaxPolls /\ ~terminal_seen))
\* PENDING, RUNNING, then FAILED: stored, and the loop is off.
C20_Witness ==
  /\ answers = <<"PENDING", "RUNNING", "FAILED">> /\ lastOp = "auto"
  /\ TerminalStored /\ execution_status = "FAILED" /\ ~poll_failed
====
